---- MODULE Spec2Model ----
(***************************************************************************)
(* XBee digital IO quirk (zhaquirks/xbee/xbee_io.py).                      *)
(*                                                                         *)
(* Byte strings are sequences of naturals in 0..255.  A Python list is a   *)
(* sequence whose element of (0-based) index i sits at position i + 1.     *)
(* An optional value (None / not yet produced) is a sequence of length 0   *)
(* or 1.                                                                   *)
(***************************************************************************)
EXTENDS Integers, Sequences, FiniteSets, TLC

VARIABLES
    buffer,         \* byte string handed to IOSample.deserialize
    sample,         \* <<>> before the call, <<result>> after it
    frame,          \* <<>> or <<the frame the host delivered last>>
    ret,            \* <<>> or <<what DigitalIOCluster.deserialize returned for it>>
    updates,        \* _update_attribute calls made by the last handler run
    raised,         \* "none" or the exception the last handler run ended with
    onOff,          \* attribute cache: endpoint id -> on_off value (partial)
    calls,          \* the invocations of XBeeOnOff.command, in call order: each
                    \* a record of its endpoint_id and command, its position
                    \* cmd_pc (awaiting/returned/raised), what it returned or
                    \* raised (cmd_ret), the remote_at_command calls it made
                    \* (sent) and the state of its remote write (transport)
    has_remote_at   \* hasattr(application, 'remote_at_command')

vars == <<buffer, sample, frame, ret, updates, raised, onOff, calls,
          has_remote_at>>

-----------------------------------------------------------------------------
(* Module constants                                                        *)

DIO_PIN_HIGH == 5
DIO_PIN_LOW == 4
ON_OFF_CMD == 0

\* 0xd0..0xd5, 0xda..0xdc
ENDPOINT_MAP ==
    (0 :> 208) @@ (1 :> 209) @@ (2 :> 210) @@ (3 :> 211) @@ (4 :> 212) @@
    (5 :> 213) @@ (10 :> 218) @@ (11 :> 219) @@ (12 :> 220)

ep_id_2_pin ==
    (208 :> "D0") @@ (209 :> "D1") @@ (210 :> "D2") @@ (211 :> "D3") @@
    (212 :> "D4") @@ (213 :> "D5") @@ (218 :> "P0") @@ (219 :> "P1") @@
    (220 :> "P2")

-----------------------------------------------------------------------------
(* Python primitives used by the decoder                                   *)

Min(a, b) == IF a <= b THEN a ELSE b

\* data[a:b] for 0 <= a <= b: the slice is clipped to the data, never fails
Slice(data, a, b) ==
    LET lo == Min(a, Len(data))
        hi == Min(b, Len(data))
    IN  [k \in 1..(hi - lo) |-> data[lo + k]]

\* int.from_bytes(bytes, byteorder='big'); the empty string gives 0
RECURSIVE from_bytes_big(_)
from_bytes_big(bytes) ==
    IF bytes = <<>> THEN 0
    ELSE from_bytes_big(SubSeq(bytes, 1, Len(bytes) - 1)) * 256
         + bytes[Len(bytes)]

\* (n >> bit) & 1
ShiftAnd1(n, bit) == (n \div (2 ^ bit)) % 2

\* [(n >> bit) & 1 for bit in range(num_bits - 1, -1, -1)]
BitsMsbFirst(n, num_bits) ==
    [k \in 1..num_bits |-> ShiftAnd1(n, num_bits - k)]

reversed_identity(list) == list

\* list(reversed(list))
reversed(list) == [k \in 1..Len(list) |-> list[Len(list) + 1 - k]]

\* list[i] with a 0-based index
At(list, i) == list[i + 1]

-----------------------------------------------------------------------------
(* IOSample.deserialize                                                    *)

\* The for loop over analog_pins: idx is the next list index, sample_index
\* the running offset, analog_samples the list built so far.
RECURSIVE AnalogLoop(_, _, _, _, _)
AnalogLoop(data, analog_pins, idx, sample_index, analog_samples) ==
    IF idx >= Len(analog_pins) THEN analog_samples
    ELSE IF At(analog_pins, idx) = 1
         THEN AnalogLoop(data, analog_pins, idx + 1, sample_index + 1,
                  Append(analog_samples,
                         from_bytes_big(Slice(data, 5 + sample_index,
                                                    7 + sample_index))))
         ELSE AnalogLoop(data, analog_pins, idx + 1, sample_index,
                  Append(analog_samples, 0))

\* The dictionary built by IOSample.deserialize.
IOSample_fields(data) ==
    LET digital_mask == Slice(data, 0, 2)
        analog_mask == Slice(data, 2, 3)
        digital_sample == Slice(data, 3, 5)
        num_bits == 13
        digital_pins ==
            reversed(BitsMsbFirst(from_bytes_big(digital_mask), num_bits))
        analog_pins ==
            reversed(BitsMsbFirst(from_bytes_big(analog_mask), 8))
        digital_samples ==
            reversed(BitsMsbFirst(from_bytes_big(digital_sample), num_bits))
    IN  [digital_pins |-> digital_pins,
         analog_pins |-> analog_pins,
         digital_samples |-> digital_samples,
         analog_samples |-> AnalogLoop(data, analog_pins, 0, 0, <<>>)]

\* A decoder that refuses a buffer without the 5-byte header.
IOSample_deserialize_strict(data) ==
    IF Len(data) < 5
    THEN <<[error |-> "MalformedSample"], data>>
    ELSE <<IOSample_fields(data), <<>>>>

\* IOSample.deserialize(data): the pair (dictionary, remaining bytes b'').
IOSample_deserialize(data) == <<IOSample_fields(data), <<>>>>

\* zigpy.types.deserialize(data, (IOSample,)): the list of decoded values, of
\* which the handler reads args[0].
t_deserialize(data) == <<Head(IOSample_deserialize(data))>>

-----------------------------------------------------------------------------
(* Inputs of the decoder specification                                     *)

MaxLen == 9

\* 0x00, 0x03, 0x10
ByteVals == {0, 3, 16}

RECURSIVE SeqsUpTo(_, _)
SeqsUpTo(S, n) ==
    IF n = 0 THEN {<<>>}
    ELSE LET shorter == SeqsUpTo(S, n - 1)
         IN  shorter \cup
             {Append(s, b) : s \in {t \in shorter : Len(t) = n - 1}, b \in S}

Buffers == SeqsUpTo(ByteVals, MaxLen)

-----------------------------------------------------------------------------
(* XbeeSensor.DigitalIOCluster                                             *)

\* client_commands and server_commands: command id -> (name, schema, is_reply)
client_commands ==
    (0 :> [name |-> "io_sample", schema |-> "IOSample", is_reply |-> FALSE])

server_commands ==
    (0 :> [name |-> "io_sample", schema |-> "IOSample", is_reply |-> FALSE])

\* struct.pack('>i', n)[-1:]
LowByte(n) == n % 256

\* zigpy's stock behaviour for a command id missing from the table.
DigitalIOCluster_deserialize_stock(tsn, frame_type, is_reply, command_id, data) ==
    LET commands == IF is_reply THEN client_commands ELSE server_commands
    IN  IF command_id \notin DOMAIN commands
        THEN [tsn |-> tsn, command_id |-> command_id + 256,
              is_reply |-> is_reply, args |-> data]
        ELSE [tsn |-> tsn, command_id |-> command_id + 256,
              is_reply |-> commands[command_id].is_reply,
              args |-> t_deserialize(data)]

\* DigitalIOCluster.deserialize for a cluster-specific frame (frame_type = 1):
\* the tuple (tsn, command_id, is_reply, value) it returns.  The general
\* branch (frame_type /= 1) is zigpy's unchanged foundation decoding over
\* the library's command table and is not part of the model.
DigitalIOCluster_deserialize(tsn, frame_type, is_reply, command_id, data) ==
    LET commands == IF is_reply THEN client_commands ELSE server_commands
    IN  IF command_id \notin DOMAIN commands
        THEN \* except KeyError
             LET data2 == <<LowByte(tsn), LowByte(command_id)>> \o data
                 new_command_id == ON_OFF_CMD
             IN  IF new_command_id \notin DOMAIN commands
                 THEN [tsn |-> tsn, command_id |-> command_id + 256,
                       is_reply |-> is_reply, args |-> data2]
                 ELSE [tsn |-> tsn, command_id |-> new_command_id,
                       is_reply |-> commands[new_command_id].is_reply,
                       args |-> t_deserialize(data2)]
        ELSE \* "Bad hack to differentiate foundation vs cluster"
             [tsn |-> tsn, command_id |-> command_id + 256,
              is_reply |-> commands[command_id].is_reply,
              args |-> t_deserialize(data)]

\* [i for i, x in enumerate(values['digital_pins']) if x == 1]
ActivePins(digital_pins) ==
    LET idx == [k \in 1..Len(digital_pins) |-> k - 1]
    IN  SelectSeq(idx, LAMBDA i : At(digital_pins, i) = 1)

\* for pin in active_pins: device[ENDPOINT_MAP[pin]].on_off._update_attribute(
\*     ON_OFF_CMD, values['digital_samples'][pin])
\* ENDPOINT_MAP[pin] raises KeyError for a pin without an entry; the updates
\* made before it stay.
RECURSIVE UpdateLoop(_, _, _, _)
UpdateLoop(active_pins, values, attrs, emitted) ==
    IF active_pins = <<>>
    THEN [onOff |-> attrs, updates |-> emitted, raised |-> "none"]
    ELSE LET pin == Head(active_pins)
         IN  IF pin \notin DOMAIN ENDPOINT_MAP
             THEN [onOff |-> attrs, updates |-> emitted, raised |-> "KeyError"]
             ELSE UpdateLoop(Tail(active_pins), values,
                      (ENDPOINT_MAP[pin] :> At(values.digital_samples, pin))
                          @@ attrs,
                      Append(emitted, <<ENDPOINT_MAP[pin],
                                        At(values.digital_samples, pin)>>))

\* DigitalIOCluster.handle_cluster_general_request(tsn, command_id, args) on
\* the attribute cache attrs.  Any other command id goes to the base class,
\* which touches no on/off endpoint.
handle_cluster_general_request(tsn, command_id, args, attrs) ==
    IF command_id = ON_OFF_CMD
    THEN LET values == Head(args)
         IN  IF "digital_pins" \in DOMAIN values
                /\ "digital_samples" \in DOMAIN values
             THEN UpdateLoop(ActivePins(values.digital_pins), values,
                             attrs, <<>>)
             ELSE [onOff |-> attrs, updates |-> <<>>, raised |-> "none"]
    ELSE [onOff |-> attrs, updates |-> <<>>, raised |-> "none"]

\* The host's routing of a deserialized frame: a command id above 0xff is a
\* cluster command (handle_cluster_request, which the quirk does not
\* override), anything else reaches handle_cluster_general_request.
Dispatch(r, attrs) ==
    IF r.command_id > 255
    THEN [onOff |-> attrs, updates |-> <<>>, raised |-> "none"]
    ELSE handle_cluster_general_request(r.tsn, r.command_id, r.args, attrs)

-----------------------------------------------------------------------------
(* XBeeOnOff.command and XbeeSensor.remote_at                              *)

\* The device's network address (self.nwk).
nwk == 4660

\* A lookup that falls back to pin D0.
ep_id_2_pin_get_default(endpoint_id) ==
    IF endpoint_id \in DOMAIN ep_id_2_pin
    THEN <<ep_id_2_pin[endpoint_id]>> ELSE <<"D0">>

\* self.ep_id_2_pin.get(endpoint_id): <<>> is None
ep_id_2_pin_get(endpoint_id) ==
    IF endpoint_id \in DOMAIN ep_id_2_pin
    THEN <<ep_id_2_pin[endpoint_id]>> ELSE <<>>

PinCmd_swapped(command) ==
    IF command = 0 THEN DIO_PIN_HIGH ELSE DIO_PIN_LOW

\* if command == 0: pin_cmd = DIO_PIN_LOW else: pin_cmd = DIO_PIN_HIGH
PinCmd(command) ==
    IF command = 0 THEN DIO_PIN_LOW ELSE DIO_PIN_HIGH

\* XbeeSensor.remote_at(command, *args): the call made on the application,
\* whose awaitable it returns, or <<>> (None, after a warning) when the
\* coordinator has no remote_at_command.
remote_at(command, args) ==
    IF has_remote_at
    THEN <<[nwk |-> nwk, command |-> command, args |-> args,
            apply_changes |-> TRUE, encryption |-> TRUE]>>
    ELSE <<>>

\* A command that does not await the remote write.
AwaitRemoteAt_forget(awaitable) ==
    [cmd_pc |-> "returned", cmd_ret |-> "SUCCESS",
     transport |-> IF awaitable = <<>> THEN "idle" ELSE "pending"]

\* await <result of remote_at>: awaiting None raises TypeError, awaiting the
\* transport's coroutine suspends the command until the write is over.
AwaitRemoteAt(awaitable) ==
    IF awaitable = <<>>
    THEN [cmd_pc |-> "raised", cmd_ret |-> "TypeError", transport |-> "idle"]
    ELSE [cmd_pc |-> "awaiting", cmd_ret |-> "none", transport |-> "pending"]

-----------------------------------------------------------------------------
(* Inputs                                                                  *)

MaxData == 3

\* transaction sequence byte = high byte of the digital mask: 0x00, 0x04
TsnVals == {0, 4}

\* command id byte = low byte of the digital mask: 0x00, 0x01, 0x40
CommandIdVals == {0, 1, 64}

\* payload bytes: 0x00, 0x05
DataVals == {0, 5}

\* cluster-specific frames with any payload of up to MaxData bytes
Frames ==
    [frame_type : {1}, is_reply : BOOLEAN, tsn : TsnVals,
     command_id : CommandIdVals, data : SeqsUpTo(DataVals, MaxData)]

\* well-formed reports: digital mask (tsn, command id), no analog pin, and a
\* digital sample word of 0x0000 or 0x0401
ReportFrames ==
    [frame_type : {1}, is_reply : {FALSE}, tsn : TsnVals,
     command_id : CommandIdVals, data : {<<0, 0, 0>>, <<0, 4, 1>>}]

\* the endpoints carrying XBeeOnOff
PinEndpoints == {ENDPOINT_MAP[p] : p \in DOMAIN ENDPOINT_MAP}

\* 0xd0, 0xda: the endpoints of the pins the reports of ReportFrames enable
ReportedEndpoints == {208, 218}

\* 0xe8, 0x9999: endpoint ids without a pin name
OtherEndpoints == {232, 39321}

\* off, on, toggle
OnOffCommands == {0, 1, 2}

\* invocations of XBeeOnOff.command in one behaviour
MaxCalls == 2

-----------------------------------------------------------------------------
(* Actions                                                                 *)

Init ==
    /\ buffer = <<>>
    /\ sample = <<>>
    /\ frame = <<>>
    /\ ret = <<>>
    /\ updates = <<>>
    /\ raised = "none"
    /\ onOff = <<>>
    /\ calls = <<>>
    /\ has_remote_at \in BOOLEAN

\* The host delivers a cluster-specific frame to the IO cluster: deserialize,
\* then the handler the returned command id selects.
Receive(f) ==
    /\ f.frame_type = 1
    /\ \E r \in {DigitalIOCluster_deserialize(f.tsn, f.frame_type, f.is_reply,
                                               f.command_id, f.data)} :
       \E h \in {Dispatch(r, onOff)} :
           /\ frame' = <<f>>
           /\ ret' = <<r>>
           /\ updates' = h.updates
           /\ raised' = h.raised
           /\ onOff' = h.onOff
    /\ UNCHANGED <<buffer, sample, calls, has_remote_at>>

\* XBeeOnOff.command(command) on the cluster of endpoint endpoint_id, up to
\* its return or its await.  Nothing in the code serialises commands: one
\* may be invoked while earlier ones are suspended at their await.
Command(endpoint_id, command) ==
    /\ Len(calls) < MaxCalls
    /\ LET pin_name == ep_id_2_pin_get(endpoint_id)
       IN  IF command \notin {0, 1} \/ pin_name = <<>>
           THEN \* return super().command(command, *args)
                calls' = Append(calls,
                    [endpoint_id |-> endpoint_id, command |-> command,
                     cmd_pc |-> "returned", cmd_ret |-> "super",
                     sent |-> <<>>, transport |-> "idle"])
           ELSE LET awaitable == remote_at(Head(pin_name), <<PinCmd(command)>>)
                    a == AwaitRemoteAt(awaitable)
                IN  calls' = Append(calls,
                        [endpoint_id |-> endpoint_id, command |-> command,
                         cmd_pc |-> a.cmd_pc, cmd_ret |-> a.cmd_ret,
                         sent |-> awaitable, transport |-> a.transport])
    /\ UNCHANGED <<buffer, sample, frame, ret, updates, raised, onOff,
                   has_remote_at>>

\* The remote write awaited by invocation i completes: the invocation resumes
\* and does return 0, foundation.Status.SUCCESS
TransportComplete(i) ==
    /\ i \in DOMAIN calls
    /\ calls[i].cmd_pc = "awaiting"
    /\ calls' = [calls EXCEPT ![i].transport = "completed",
                              ![i].cmd_pc = "returned",
                              ![i].cmd_ret = "SUCCESS"]
    /\ UNCHANGED <<buffer, sample, frame, ret, updates, raised, onOff,
                   has_remote_at>>

\* The remote write awaited by invocation i fails: its exception leaves the
\* invocation.
TransportFail(i) ==
    /\ i \in DOMAIN calls
    /\ calls[i].cmd_pc = "awaiting"
    /\ calls' = [calls EXCEPT ![i].transport = "failed",
                              ![i].cmd_pc = "raised",
                              ![i].cmd_ret = "TransportError"]
    /\ UNCHANGED <<buffer, sample, frame, ret, updates, raised, onOff,
                   has_remote_at>>

\* IOSample.deserialize(buffer)
Deserialize ==
    /\ sample = <<>>
    /\ sample' = <<Head(IOSample_deserialize(buffer))>>
    /\ UNCHANGED <<buffer, frame, ret, updates, raised, onOff, calls,
                   has_remote_at>>

-----------------------------------------------------------------------------
(* The device: reports and pin commands in any interleaving                *)

Next ==
    \/ \E f \in ReportFrames : Receive(f)
    \/ \E e \in ReportedEndpoints \cup OtherEndpoints, c \in OnOffCommands :
           Command(e, c)
    \/ \E i \in 1..MaxCalls : TransportComplete(i)
    \/ \E i \in 1..MaxCalls : TransportFail(i)

Spec == Init /\ [][Next]_vars

-----------------------------------------------------------------------------
(* The pin commands alone, on every endpoint, overlapping in any way       *)

InitCommand == Init

NextCommand ==
    \/ \E e \in PinEndpoints \cup OtherEndpoints, c \in OnOffCommands :
           Command(e, c)
    \/ \E i \in 1..MaxCalls : TransportComplete(i)
    \/ \E i \in 1..MaxCalls : TransportFail(i)

SpecCommand == InitCommand /\ [][NextCommand]_vars

-----------------------------------------------------------------------------
(* The IO cluster alone, over every input frame                            *)

InitCluster == Init /\ has_remote_at

NextCluster == \E f \in Frames : Receive(f)

SpecCluster == InitCluster /\ [][NextCluster]_vars

-----------------------------------------------------------------------------
(* The decoder alone, over every input buffer                              *)

InitDecode ==
    /\ buffer \in Buffers
    /\ sample = <<>>
    /\ frame = <<>>
    /\ ret = <<>>
    /\ updates = <<>>
    /\ raised = "none"
    /\ onOff = <<>>
    /\ calls = <<>>
    /\ has_remote_at = TRUE

NextDecode == Deserialize

SpecDecode == InitDecode /\ [][NextDecode]_vars

-----------------------------------------------------------------------------
(* Properties of the decoder (SpecDecode)                                  *)

Decoded == Len(sample) = 1

\* number of analog pins the analog-enable byte (byte 2) of data enables
AnalogEnabledCount(data) ==
    LET mask == from_bytes_big(Slice(data, 2, 3))
    IN  Cardinality({b \in 0..7 : ShiftAnd1(mask, b) = 1})

\* number of enabled analog pins of index below j
EnabledBelow(analog_pins, j) ==
    Cardinality({a \in 0..7 : a < j /\ At(analog_pins, a) = 1})

\* C2: in the decoding of a buffer long enough for its analog words, the
\* k-th enabled analog pin (in ascending pin index) holds the big-endian
\* 16-bit word of bytes [5+2k, 7+2k), and a pin that is not enabled holds 0.
C2_AnalogWordsDoNotOverlap ==
    (Decoded /\ Len(buffer) >= 5 + 2 * AnalogEnabledCount(buffer)) =>
        LET d == Head(sample)
        IN  \A j \in 0..7 :
                At(d.analog_samples, j) =
                    IF At(d.analog_pins, j) = 1
                    THEN LET k == EnabledBelow(d.analog_pins, j)
                         IN  from_bytes_big(Slice(buffer, 5 + 2 * k, 7 + 2 * k))
                    ELSE 0

\* C3 as stated: digital pin i is bit 12 - i of the digital-enable word
\* (bytes [0:2]) and of the digital-sample word (bytes [3:5]), analog pin j
\* is bit 7 - j of byte 2.
C3_PinIsReversedBit ==
    Decoded =>
        LET d == Head(sample)
            enable == from_bytes_big(Slice(buffer, 0, 2))
            analog == from_bytes_big(Slice(buffer, 2, 3))
            value == from_bytes_big(Slice(buffer, 3, 5))
        IN  /\ \A i \in 0..12 :
                   /\ At(d.digital_pins, i) = ShiftAnd1(enable, 12 - i)
                   /\ At(d.digital_samples, i) = ShiftAnd1(value, 12 - i)
            /\ \A j \in 0..7 : At(d.analog_pins, j) = ShiftAnd1(analog, 7 - j)

\* C3 amended: digital pin i is bit i of the digital-enable word (bytes
\* [0:2]) and of the digital-sample word (bytes [3:5]), analog pin j is bit
\* j of byte 2; bits 13..15 of the two words appear nowhere.
C3_PinIsSameBit ==
    Decoded =>
        LET d == Head(sample)
            enable == from_bytes_big(Slice(buffer, 0, 2))
            analog == from_bytes_big(Slice(buffer, 2, 3))
            value == from_bytes_big(Slice(buffer, 3, 5))
        IN  /\ Len(d.digital_pins) = 13
            /\ Len(d.digital_samples) = 13
            /\ Len(d.analog_pins) = 8
            /\ \A i \in 0..12 :
                   /\ At(d.digital_pins, i) = ShiftAnd1(enable, i)
                   /\ At(d.digital_samples, i) = ShiftAnd1(value, i)
            /\ \A j \in 0..7 : At(d.analog_pins, j) = ShiftAnd1(analog, j)

\* C3 witness: the buffer 00 03 .. .. .. (digital-enable word 0x0003) has
\* been decoded: pins 0 and 1 are enabled, pin 12 is not.
C3_Witness ==
    /\ Decoded
    /\ Len(buffer) >= 5
    /\ buffer[1] = 0
    /\ buffer[2] = 3
    /\ At(Head(sample).digital_pins, 0) = 1
    /\ At(Head(sample).digital_pins, 1) = 1
    /\ At(Head(sample).digital_pins, 12) = 0

\* C5 as stated: a buffer shorter than 5 bytes plus 2 bytes per analog pin
\* its analog-enable byte enables is refused with MalformedSample.
C5_ShortBufferIsRefused ==
    (Decoded /\ Len(buffer) < 5 + 2 * AnalogEnabledCount(buffer)) =>
        "error" \in DOMAIN Head(sample)

\* C5 amended: decoding never fails.  Every buffer, whatever its length,
\* yields the four lists (13, 8, 13 and 8 entries), and what the buffer
\* lacks reads as zero: no digital sample without bytes [3:5], no analog pin
\* without byte 2, no digital pin without bytes [0:2], and 0 for an enabled
\* analog pin whose word starts beyond the buffer.
C5_DecodeIsTotal ==
    Decoded =>
        LET d == Head(sample)
        IN  /\ DOMAIN d = {"digital_pins", "analog_pins", "digital_samples",
                           "analog_samples"}
            /\ Len(d.digital_pins) = 13
            /\ Len(d.analog_pins) = 8
            /\ Len(d.digital_samples) = 13
            /\ Len(d.analog_samples) = 8
            /\ Len(buffer) <= 3 => \A i \in 0..12 : At(d.digital_samples, i) = 0
            /\ Len(buffer) <= 2 => \A j \in 0..7 : At(d.analog_pins, j) = 0
            /\ Len(buffer) = 0 => \A i \in 0..12 : At(d.digital_pins, i) = 0
            /\ Len(buffer) <= 5 => \A j \in 0..7 : At(d.analog_samples, j) = 0

\* C5 witness: a 3-byte buffer whose analog-enable byte is 0x03 has been
\* decoded into a sample with analog pins 0 and 1 enabled.
C5_Witness ==
    /\ Decoded
    /\ Len(buffer) = 3
    /\ buffer[3] = 3
    /\ "analog_pins" \in DOMAIN Head(sample)
    /\ At(Head(sample).analog_pins, 0) = 1
    /\ At(Head(sample).analog_pins, 1) = 1

-----------------------------------------------------------------------------
(* Properties of the IO cluster (SpecCluster)                              *)

Delivered == Len(frame) = 1

\* the updates of the enabled pins that have an entry in ENDPOINT_MAP, in
\* ascending pin index
ExpectedUpdates(values) ==
    LET idx == [k \in 1..13 |-> k - 1]
        pins == SelectSeq(idx, LAMBDA i : /\ At(values.digital_pins, i) = 1
                                          /\ i \in DOMAIN ENDPOINT_MAP)
    IN  [k \in 1..Len(pins) |->
            <<ENDPOINT_MAP[pins[k]], At(values.digital_samples, pins[k])>>]

\* C1: the handler run on a decoded sample emits exactly the updates
\* (ENDPOINT_MAP[i], digital_samples[i]) of the enabled pins i that have an
\* entry, in ascending order of i, and fails on no pin.
C1_UnmappedPinsAreSkipped ==
    (Delivered /\ Head(ret).command_id = ON_OFF_CMD) =>
        /\ raised = "none"
        /\ updates = ExpectedUpdates(Head(Head(ret).args))

\* C7 as stated: a frame whose command id is not 0 is not decoded as an IO
\* sample report and triggers no pin-state update.
C7_UnknownCommandIsRejected ==
    (Delivered /\ Head(frame).command_id /= 0) =>
        /\ Head(ret).command_id /= ON_OFF_CMD
        /\ updates = <<>>

\* C7 amended: a frame whose command id is not 0 is decoded as an IO sample
\* over (low byte of tsn, low byte of command id, payload) and returned as
\* command 0, not as a reply, so the pin-state handler runs on it: when it
\* enables mapped pins only, their updates are emitted.
C7_UnknownCommandIsDecodedAsSample ==
    (Delivered /\ Head(frame).command_id /= 0) =>
        LET f == Head(frame)
            r == Head(ret)
            mask == LowByte(f.tsn) * 256 + LowByte(f.command_id)
        IN  /\ r.command_id = ON_OFF_CMD
            /\ r.is_reply = FALSE
            /\ r.tsn = f.tsn
            /\ \A i \in 0..12 :
                   At(Head(r.args).digital_pins, i) = ShiftAnd1(mask, i)
            /\ (\A i \in 0..12 : ShiftAnd1(mask, i) = 1
                                    => i \in DOMAIN ENDPOINT_MAP)
                   => /\ raised = "none"
                      /\ updates = ExpectedUpdates(Head(r.args))

\* C7 witness: the frame tsn 0x04, command id 0x01, payload 00 04 01 was
\* delivered and made the handler set endpoints 0xd0 and 0xda to 1.
C7_Witness ==
    /\ Delivered
    /\ Head(frame).tsn = 4
    /\ Head(frame).command_id = 1
    /\ updates = <<<<208, 1>>, <<218, 1>>>>

\* C9: every frame is decoded as an IO sample over (low byte of tsn, low byte
\* of command id, payload) and returned with command id 0.
C9_EveryFrameIsDecodedAsSample ==
    Delivered =>
        LET f == Head(frame)
            r == Head(ret)
        IN  /\ r.command_id = ON_OFF_CMD
            /\ Head(r.args) =
                   IOSample_fields(<<LowByte(f.tsn), LowByte(f.command_id)>>
                                   \o f.data)

-----------------------------------------------------------------------------
(* Properties of the pin commands (SpecCommand)                            *)

\* invocation c is a pin write (0 or 1) on an endpoint with a pin name
PinWrite(c) ==
    /\ c.endpoint_id \in DOMAIN ep_id_2_pin
    /\ c.command \in {0, 1}

\* 0xD0..0xD5 -> "D0".."D5", 0xDA..0xDC -> "P0".."P2"
PinNameOf(endpoint_id) ==
    IF endpoint_id <= 213
    THEN <<"D0", "D1", "D2", "D3", "D4", "D5">>[endpoint_id - 207]
    ELSE <<"P0", "P1", "P2">>[endpoint_id - 217]

\* C4: with a coordinator that has remote_at_command, every pin write on a
\* mapped endpoint has made exactly one remote call: the device's network
\* address, the endpoint's pin name, opcode 4 (low) for 0 and 5 (high) for 1,
\* apply_changes and encryption both true; and this whether or not other
\* commands are in flight.
C4_OneRemoteCommand ==
    \A i \in DOMAIN calls :
        (PinWrite(calls[i]) /\ has_remote_at) =>
            calls[i].sent =
                <<[nwk |-> nwk,
                   command |-> PinNameOf(calls[i].endpoint_id),
                   args |-> <<IF calls[i].command = 0 THEN 4 ELSE 5>>,
                   apply_changes |-> TRUE,
                   encryption |-> TRUE]>>

\* C4 witness: command 1 on endpoint 0xd0 is awaiting its write of D0 when
\* command 0 on endpoint 0xda sends P0 with opcode 4.
C4_Witness ==
    /\ has_remote_at
    /\ Len(calls) = 2
    /\ calls[1].endpoint_id = 208 /\ calls[1].command = 1
    /\ calls[1].cmd_pc = "awaiting"
    /\ Head(calls[1].sent).command = "D0" /\ Head(calls[1].sent).args = <<5>>
    /\ calls[2].endpoint_id = 218 /\ calls[2].command = 0
    /\ calls[2].cmd_pc = "awaiting"
    /\ Head(calls[2].sent).command = "P0" /\ Head(calls[2].sent).args = <<4>>

\* invocation c is command 0 or 1 on an endpoint without a pin name
Unmapped(c) ==
    /\ c.endpoint_id \notin DOMAIN ep_id_2_pin
    /\ c.command \in {0, 1}

\* C6 as stated: command 0 or 1 on an endpoint without a pin name fails with
\* UnsupportedEndpoint and hands no remote command to the transport.
C6_UnmappedEndpointFails ==
    \A i \in DOMAIN calls :
        Unmapped(calls[i]) =>
            /\ calls[i].cmd_pc = "raised"
            /\ calls[i].cmd_ret = "UnsupportedEndpoint"
            /\ calls[i].sent = <<>>

\* C6 amended: command 0 or 1 on an endpoint without a pin name is handed
\* unchanged to the generic on/off command, whose result is returned: no
\* failure of its own, no remote command, no remote write, no SUCCESS status
\* of a pin write.
C6_UnmappedEndpointFallsThrough ==
    \A i \in DOMAIN calls :
        Unmapped(calls[i]) =>
            /\ calls[i].cmd_pc = "returned"
            /\ calls[i].cmd_ret = "super"
            /\ calls[i].sent = <<>>
            /\ calls[i].transport = "idle"

\* C6 witness: command 1 on endpoint 0x9999 was handed to the generic command
\* while a pin write on endpoint 0xd5 was still awaiting.
C6_Witness ==
    /\ Len(calls) = 2
    /\ calls[1].endpoint_id = 213 /\ calls[1].cmd_pc = "awaiting"
    /\ calls[2].endpoint_id = 39321 /\ calls[2].command = 1
    /\ calls[2].cmd_ret = "super"

\* C8 as stated: once a pin write has been handed to the transport (or found
\* unsupported) the command has returned SUCCESS, whatever the remote write
\* does.
C8_FireAndForget ==
    \A i \in DOMAIN calls :
        PinWrite(calls[i]) =>
            /\ calls[i].cmd_pc = "returned"
            /\ calls[i].cmd_ret = "SUCCESS"

\* C8 amended: a pin write awaits its own remote write.  SUCCESS is returned
\* exactly when that write has completed; while it is pending the command
\* has returned nothing; a failed write fails the command; without
\* remote_at_command the command raises TypeError and sends nothing.
C8_SuccessOnlyAfterWrite ==
    \A i \in DOMAIN calls :
        PinWrite(calls[i]) =>
            LET c == calls[i]
            IN  /\ c.cmd_ret = "SUCCESS" <=> c.transport = "completed"
                /\ c.transport = "pending" =>
                       (c.cmd_pc = "awaiting" /\ c.cmd_ret = "none")
                /\ c.transport = "failed" =>
                       (c.cmd_pc = "raised" /\ c.cmd_ret = "TransportError")
                /\ ~has_remote_at =>
                       (/\ c.cmd_pc = "raised"
                        /\ c.cmd_ret = "TypeError"
                        /\ c.sent = <<>>)
                /\ has_remote_at =>
                       c.transport \in {"pending", "completed", "failed"}

\* C8 witness: of two overlapping pin writes the later one returned SUCCESS
\* after its remote write completed, the earlier one is still awaiting.
C8_Witness ==
    /\ Len(calls) = 2
    /\ PinWrite(calls[1]) /\ PinWrite(calls[2])
    /\ calls[1].cmd_pc = "awaiting" /\ calls[1].cmd_ret = "none"
    /\ calls[2].cmd_pc = "returned" /\ calls[2].cmd_ret = "SUCCESS"
    /\ calls[2].transport = "completed"
    /\ Len(calls[2].sent) = 1

-----------------------------------------------------------------------------
(* Properties of the device (Spec)                                         *)

\* the report's digital-enable word and digital-sample word as sent
WireMask(f) == LowByte(f.tsn) * 256 + LowByte(f.command_id)
WireSample(f) == from_bytes_big(Slice(f.data, 1, 3))

\* C10: a report that enables mapped pins only sets the on/off attribute of
\* each enabled pin's endpoint to the pin's sampled value and leaves every
\* other endpoint's attribute as it was; a pin command and the end of its
\* remote write change no attribute.  (By induction the attribute is the
\* value of the most recent report that enabled the pin.)
C10_AttributesFollowReports ==
    [][/\ \A f \in ReportFrames :
              (/\ Receive(f)
               /\ \A i \in 0..12 : ShiftAnd1(WireMask(f), i) = 1
                                      => i \in DOMAIN ENDPOINT_MAP)
              => \A i \in DOMAIN ENDPOINT_MAP :
                     LET e == ENDPOINT_MAP[i]
                     IN  IF ShiftAnd1(WireMask(f), i) = 1
                         THEN /\ e \in DOMAIN onOff'
                              /\ onOff'[e] = ShiftAnd1(WireSample(f), i)
                         ELSE /\ e \in DOMAIN onOff' <=> e \in DOMAIN onOff
                              /\ e \in DOMAIN onOff => onOff'[e] = onOff[e]
       /\ (\/ \E e \in PinEndpoints \cup OtherEndpoints, c \in OnOffCommands :
                  Command(e, c)
           \/ \E j \in 1..MaxCalls : TransportComplete(j)
           \/ \E j \in 1..MaxCalls : TransportFail(j))
              => onOff' = onOff]_vars

====
